---- MODULE Spec2Model ----
(***************************************************************************)
(* Model of the PBO-backed GL texture memory (gstglmemorypbo.c): one       *)
(* GstGLMemoryPBO object on one GL context, its staging buffer (PBO), the  *)
(* map/unmap protocol, the explicit transfers and the texture copy.        *)
(***************************************************************************)
EXTENDS Integers, Sequences, FiniteSets, TLC

VARIABLES ctx, mem, pbo, tex, data, gl, maps, dst, last, rt, once, setup, filter

vars == <<ctx, mem, pbo, tex, data, gl, maps, dst, last, rt, once, setup, filter>>

(* ---------------------------------------------------------------- bounds *)
\* byte contents written by the application are 1..MaxData; 0 is storage
\* that was never written
MaxData == 1
\* outstanding object-level mappings
MaxMaps == 1
\* outstanding mappings of the PBO
MaxPboMaps == 2
\* plane heights are 1..MaxHeight
MaxHeight == 2
\* threads calling the one-time set-up, and calls made by each
MaxThreads == 3
MaxCalls == 2
\* views and planes of a video frame, and memories a buffer may hold
MaxViews == 2
MaxPlanes == 2
MaxBuffer == 4

Undef == 0
Contents == 0..MaxData
Written == 1..MaxData
Heights == 1..MaxHeight
\* row strides of a destination; the object's plane has the largest height
\* and the smallest stride
Strides == {4, 8}
SrcHeights == {MaxHeight}
SrcStrides == {4}

(* --------------------------------------------------------- GL constants *)
DefaultRowLength == 0
DefaultAlignment == 4

\* texture and framebuffer names: the one the parent class generates for an
\* allocated object, the one a caller wraps, the destination a caller passes
\* to a copy, the one _new_texture generates, the copy's framebuffer
SrcTexId == 1
CallerTexId == 2
DstTexId == 3
NewTexId == 4
FboId == 1

(* -------------------------------------------------------------- context *)
Apis == {{"OPENGL"}, {"OPENGL3"}, {"GLES2"}, {"OPENGL", "OPENGL3"}}
Majors == {1, 2, 3}
Minors == {0, 1}

\* a context description: API family, version and the two entry points the
\* copy looks up in the function table.  One context for each way the
\* version probes of this file can answer: legacy desktop GL 1.0, 2.0, 2.1
\* and 3.0, core profile 3.0 and 3.1, a context offering both desktop APIs
\* at 3.1, GLES 2.0 and 3.0.  Buffer objects are core from GL 1.5 / GLES 2.0
\* on; framebuffer objects are an extension only on legacy GL before 3.0.
Contexts ==
  {c \in [api : Apis, major : Majors, minor : Minors,
          GenFramebuffers : BOOLEAN, GenBuffers : BOOLEAN] :
     /\ ("OPENGL3" \in c.api => c.major >= 3)
     /\ ("GLES2" \in c.api => c.major >= 2 /\ c.minor = 0)
     /\ (c.major = 1 => c.minor = 0)
     /\ (c.api = {"OPENGL"} /\ c.major = 3 => c.minor = 0)
     /\ (c.api = {"OPENGL", "OPENGL3"} => c.minor = 1)
     /\ c.GenBuffers = (c.major >= 2)
     /\ c.GenFramebuffers = ~(c.api = {"OPENGL"} /\ c.major = 2 /\ c.minor = 0)}

\* gst_gl_context_check_gl_version: the context offers one of the APIs in
\* api at version maj.min or later
check_gl_version(c, api, maj, min) ==
  /\ maj <= c.major
  /\ (c.api \cap api) # {}
  /\ (maj < c.major \/ min <= c.minor)

USING_OPENGL(c) == check_gl_version(c, {"OPENGL"}, 1, 0)
USING_OPENGL3(c) == check_gl_version(c, {"OPENGL3"}, 3, 1)
USING_GLES2(c) == check_gl_version(c, {"GLES2"}, 2, 0)
USING_GLES3(c) == check_gl_version(c, {"GLES2"}, 3, 0)

CONTEXT_SUPPORTS_PBO_UPLOAD(c) ==
  \/ check_gl_version(c, {"OPENGL", "OPENGL3"}, 2, 1)
  \/ check_gl_version(c, {"GLES2"}, 3, 0)

CONTEXT_SUPPORTS_PBO_DOWNLOAD(c) ==
  check_gl_version(c, {"OPENGL", "OPENGL3", "GLES2"}, 3, 0)

(* ---------------------------------------------------- one-time set-up *)
\* threads that call gst_gl_memory_pbo_init_once, each up to MaxCalls times
Threads == 1..MaxThreads

\* _init, the static guard of gst_gl_memory_pbo_init_once; busy, a thread is
\* between g_once_init_enter and g_once_init_leave; the allocators created
\* and registered so far; where each thread is in its call and how many
\* calls it has returned from
NoOnce ==
  [init |-> 0, busy |-> FALSE, allocators |-> 0, registered |-> 0,
   pc |-> [t \in Threads |-> "idle"], calls |-> [t \in Threads |-> 0]]

(* --------------------------------------------------------------- object *)
Targets == {"2D", "EXTERNAL_OES"}
TexTypes == {"RGBA", "RGB16", "LUMINANCE"}

\* pointers are addresses: NULL, and the address of the caller's
\* GstVideoAlignment
NoValign == 0
ValignAddr == 16

NoMem ==
  [state |-> "none", tex_target |-> "2D", tex_type |-> "RGBA",
   texture_wrapped |-> FALSE, tex_id |-> 0,
   NEED_UPLOAD |-> FALSE, NEED_DOWNLOAD |-> FALSE,
   pbo |-> FALSE, height |-> 1, stride |-> 4,
   plane |-> 0, valign |-> NoValign]

NoPbo ==
  [target |-> "UNPACK", NEED_UPLOAD |-> FALSE, map_count |-> 0,
   content |-> Undef]

\* GL state that outlives a call: the pixel-store parameters and the live
\* framebuffers made by the copy
InitGl ==
  [unpack_row_length |-> DefaultRowLength,
   unpack_alignment |-> DefaultAlignment,
   fbos |-> 0]

NoDst == [tex_id |-> 0, content |-> Undef]

\* what one call did: uploads into the object's texture, readbacks into the
\* PBO and into the object's own storage, successful PBO mappings, and for a
\* copy the framebuffers and textures made and deleted, the bindings and
\* writes of the destination texture, the texture and framebuffer bound
\* when the call returns, and which library results the call asked for
NoObs ==
  [uploads |-> 0, staged_dl |-> 0, direct_dl |-> 0, pbo_maps |-> 0,
   fbo_made |-> 0, fbo_deleted |-> 0, tex_made |-> 0, tex_deleted |-> 0,
   dst_binds |-> 0, dst_writes |-> 0, bound_tex |-> 0, bound_fbo |-> 0,
   map_fails |-> 0, direct_fails |-> 0, pbo_freed |-> 0, pbo_at_teardown |-> FALSE,
   off_thread |-> 0, unlocked |-> 0,
   dispatched |-> 0, completed |-> 0, result_writes |-> 0,
   pbo_unmaps |-> 0, wrong_target |-> 0,
   copy_path |-> "none", dest_made |-> 0, dest_unref |-> 0, dest_maps |-> 0,
   asked |-> {}]

\* the last call and what it returned
NoLast ==
  [op |-> "init", gl |-> FALSE, flags |-> {}, ok |-> TRUE, ret |-> "NULL",
   shown |-> Undef, start_up |-> FALSE, start_down |-> FALSE,
   respecify |-> FALSE, differ |-> FALSE, tex_in |-> 0, had_pbo |-> FALSE,
   partial |-> FALSE,
   obs |-> NoObs]

NoRt == [phase |-> "none", d |-> Undef]

\* the world a handler runs in: the state, the thread the code is running on
\* ("app" the caller's, "gl" the one that owns the context), whether the
\* object's lock is held, and ret, the handler's result
World == [mem |-> mem, pbo |-> pbo, tex |-> tex, data |-> data, gl |-> gl,
          dst |-> NoDst, obs |-> NoObs, thread |-> "app", locked |-> FALSE,
          ret |-> "NULL"]

\* a call into the GL function table, noted when it is made off the thread
\* that owns the context
GlCall(w) ==
  IF w.thread = "gl" THEN w ELSE [w EXCEPT !.obs.off_thread = @ + 1]

\* a gst_memory_map of the PBO that failed
MapFailed(w) == [w EXCEPT !.obs.map_fails = @ + 1]

\* a step of a transfer sequence (PBO map, GPU transfer call, unmap), noted
\* when it runs without the object's lock
TransferStep(w) ==
  IF w.locked THEN w ELSE [w EXCEPT !.obs.unlocked = @ + 1]

\* g_mutex_lock / g_mutex_unlock on the object's lock
\* the PBO is handed to gst_memory_map in a role ("UNPACK" as the source of
\* an upload, "PACK" to receive a readback or for CPU access), noted when
\* its target is the other one
PboUse(w, role) ==
  IF w.pbo.target = role THEN w ELSE [w EXCEPT !.obs.wrong_target = @ + 1]

g_mutex_lock(w) == [w EXCEPT !.locked = TRUE]
g_mutex_unlock(w) == [w EXCEPT !.locked = FALSE]

\* gst_gl_context_thread_add runs the work on the thread that owns the
\* context and returns to the caller's thread when the work has returned.
\* on_context_thread(w) is the world the work starts in, and
\* gst_gl_context_thread_add(w, r) the world the caller resumes in when the
\* work, started from on_context_thread(w), has left r
on_context_thread(w) == [w EXCEPT !.thread = "gl", !.obs.dispatched = @ + 1]

gst_gl_context_thread_add(w, r) ==
  [r EXCEPT !.thread = w.thread, !.obs.completed = @ + 1]

\* results of the calls a handler makes into the GL library and the driver:
\* m1..m3 the successive gst_memory_map calls on the PBO, rp the pixel
\* readback into the PBO, dp the direct readback of the parent class
EnvKeys == {"m1", "m2", "m3", "rp", "dp", "mc", "dm", "ci"}
\* a handler notes each result it asks for; a result nobody asked for is
\* taken as success, so that one run of a handler is one choice of results
Ask(w, k) == [w EXCEPT !.obs.asked = @ \cup {k}]
Canonical(e, w) == \A k \in EnvKeys \ w.obs.asked : e[k]
\* the results in which exactly the calls in S fail
Failing(S) == [k \in EnvKeys |-> k \notin S]
\* a GPU mapping makes one PBO mapping; a CPU mapping makes up to three and
\* a readback, and falls back to the direct readback when one of them fails;
\* a copy makes a readback (m1, rp) and a PBO mapping (m2); a transfer makes
\* one PBO mapping and a readback
GpuMapEnvs == {Failing(S) : S \in SUBSET {"m1"}}
CpuMapEnvs ==
  {Failing(S \cup T) : S \in {{}, {"m1"}, {"m2"}, {"rp"}, {"m3"}},
                       T \in SUBSET {"dp"}}
CopyEnvs == {Failing(S) : S \in SUBSET {"m1", "rp", "m2"}}
\* a memory copy makes a CPU copy (mc), or a mapping of the destination (dm)
\* and a texture copy (ci)
MemCopyEnvs == {Failing(S) : S \in {{}, {"mc"}, {"dm"}, {"ci"}}}
TransferEnvs == {Failing(S) : S \in {{}, {"m1"}, {"rp"}}}
\* the record of a call keeps what the call did, not what it asked
Seen(w) == [w.obs EXCEPT !.asked = {}]

MapFlags == {{"READ"}, {"WRITE"}, {"READ", "WRITE"}}
Luminance == {"LUMINANCE", "LUMINANCE_ALPHA"}

(* ------------------------------------------------------- construction *)
\* gst_gl_memory_init leaves unpack_length matching the plane's stride
unpack_length(m) == m.stride

\* _gl_mem_create: the parent class creates the texture unless the handle
\* is wrapped, then the PBO is allocated when the context is desktop GL or
\* GLES 3 (the texture target is not consulted)
_gl_mem_create(w, c) ==
  LET w1 == IF w.mem.texture_wrapped THEN w
            ELSE [w EXCEPT !.mem.tex_id = SrcTexId]
  IN IF USING_OPENGL(c) \/ USING_OPENGL3(c) \/ USING_GLES3(c)
     THEN [w1 EXCEPT !.mem.pbo = TRUE,
                     !.pbo = [NoPbo EXCEPT !.target = "UNPACK"],
                     !.ret = "TRUE"]
     ELSE [w1 EXCEPT !.ret = "TRUE"]

\* _gl_mem_init -> gst_gl_memory_init: fills in the geometry, the plane
\* (a guint) and the alignment (a pointer) and runs the allocator's create
\* on the context thread
_gl_mem_init(w, c, target, type, h, s, plane, valign) ==
  _gl_mem_create([w EXCEPT !.mem.state = "live",
                           !.mem.tex_target = target,
                           !.mem.tex_type = type,
                           !.mem.height = h,
                           !.mem.stride = s,
                           !.mem.plane = plane,
                           !.mem.valign = valign], c)

\* _gl_mem_new: zeroed object, texture not wrapped
_gl_mem_new(w, c, target, type, h, s, plane, valign) ==
  _gl_mem_init([w EXCEPT !.mem = NoMem], c, target, type, h, s, plane, valign)

\* gst_gl_memory_pbo_alloc: the call passes (..., info, valign, plane, ...)
\* where _gl_mem_new takes (..., info, plane, valign, ...), so the object's
\* plane is the address in valign and its alignment pointer is the plane
gst_gl_memory_pbo_alloc(w, c, target, type, h, s, plane, valign) ==
  _gl_mem_new(w, c, target, type, h, s, valign, plane)

\* gst_gl_memory_pbo_wrapped_texture: _gl_mem_init is given valign and
\* plane in the same exchanged order
gst_gl_memory_pbo_wrapped_texture(w, c, target, type, h, s, plane, valign) ==
  LET w1 == _gl_mem_init([w EXCEPT !.mem = [NoMem EXCEPT
                                      !.tex_id = CallerTexId,
                                      !.texture_wrapped = TRUE]],
                         c, target, type, h, s, valign, plane)
  IN [w1 EXCEPT !.mem.NEED_DOWNLOAD = TRUE]

\* gst_gl_memory_pbo_wrapped: mem->pbo->mem.data = data is executed before
\* the test of mem->pbo; without a PBO it writes through a null pointer
gst_gl_memory_pbo_wrapped(w, c, target, type, h, s, d, plane, valign) ==
  LET w1 == _gl_mem_new(w, c, target, type, h, s, valign, plane)
  IN IF ~w1.mem.pbo
     THEN [w1 EXCEPT !.mem.state = "crashed"]
     ELSE [w1 EXCEPT !.pbo.content = d,
                     !.mem.NEED_UPLOAD = TRUE,
                     !.pbo.NEED_UPLOAD = TRUE]

\* the allocation parameters _gl_mem_pbo_alloc is given: plain allocation, a
\* wrapped texture handle, wrapped system memory, both; "VIDEO" marks video
\* allocation parameters
AllocFlags == {{"VIDEO"}, {"VIDEO", "WRAP_GPU_HANDLE"}, {"VIDEO", "WRAP_SYSMEM"},
               {"VIDEO", "WRAP_GPU_HANDLE", "WRAP_SYSMEM"}, {}}

\* variant of _gl_mem_pbo_alloc that leaves NEED_DOWNLOAD clear on a wrapped
\* handle
_gl_mem_pbo_alloc_clean(w, c, alloc_flags, target, type, h, s, d, plane, valign) ==
  IF "VIDEO" \notin alloc_flags THEN [w EXCEPT !.ret = "NULL"]
  ELSE
    LET gpu == "WRAP_GPU_HANDLE" \in alloc_flags
        w0 == IF gpu
              THEN [w EXCEPT !.mem = [NoMem EXCEPT !.tex_id = CallerTexId,
                                                   !.texture_wrapped = TRUE]]
              ELSE [w EXCEPT !.mem = NoMem]
        w2 == _gl_mem_init(w0, c, target, type, h, s, plane, valign)
    IN IF "WRAP_SYSMEM" \in alloc_flags
       THEN IF ~w2.mem.pbo
            THEN [w2 EXCEPT !.mem.state = "crashed", !.ret = "NULL"]
            ELSE [w2 EXCEPT !.pbo.content = d,
                            !.mem.NEED_UPLOAD = TRUE,
                            !.pbo.NEED_UPLOAD = TRUE,
                            !.ret = "mem"]
       ELSE [w2 EXCEPT !.ret = "mem"]

\* _gl_mem_pbo_alloc, the allocator's alloc: mem->pbo->mem.data is written
\* without a test of mem->pbo
_gl_mem_pbo_alloc(w, c, alloc_flags, target, type, h, s, d, plane, valign) ==
  IF "VIDEO" \notin alloc_flags THEN [w EXCEPT !.ret = "NULL"]
  ELSE
    LET gpu == "WRAP_GPU_HANDLE" \in alloc_flags
        w0 == IF gpu
              THEN [w EXCEPT !.mem = [NoMem EXCEPT !.tex_id = CallerTexId,
                                                   !.texture_wrapped = TRUE]]
              ELSE [w EXCEPT !.mem = NoMem]
        w1 == _gl_mem_init(w0, c, target, type, h, s, plane, valign)
        w2 == IF gpu THEN [w1 EXCEPT !.mem.NEED_DOWNLOAD = TRUE] ELSE w1
    IN IF "WRAP_SYSMEM" \in alloc_flags
       THEN IF ~w2.mem.pbo
            THEN [w2 EXCEPT !.mem.state = "crashed", !.ret = "NULL"]
            ELSE [w2 EXCEPT !.pbo.content = d,
                            !.mem.NEED_UPLOAD = TRUE,
                            !.pbo.NEED_UPLOAD = TRUE,
                            !.ret = "mem"]
       ELSE [w2 EXCEPT !.ret = "mem"]

(* -------------------------------------------------------- frame set-up *)
\* a GstBuffer (its memories, each with the plane and the alignment pointer
\* it was initialised with, and its video metas), the caller's textures
\* array, and the last set-up call: its arguments, the length of the buffer
\* and the number of metas before it, the allocation that yielded no object
\* (0: none) and the result
NoSetup ==
  [buffer |-> <<>>, metas |-> 0, textures |-> <<>>,
   op |-> "none", ret |-> "none", views |-> 0, planes |-> 0,
   valign |-> NoValign, before |-> 0, metas_before |-> 0, failed |-> {}]

NoObject == [plane |-> 0, valign |-> NoValign, live |-> FALSE]

\* the memory a constructor returned, as the buffer or the array holds it
Object(w) == [plane |-> w.mem.plane, valign |-> w.mem.valign, live |-> TRUE]

\* the views gst_gl_memory_pbo_setup_buffer iterates over
Views(info) == IF info.separated THEN info.views ELSE 1

\* the loops of gst_gl_memory_pbo_setup_buffer from view v, plane i: an
\* allocation that yields no object returns FALSE at once; each view ends
\* with one video meta
RECURSIVE setup_buffer_loop(_, _, _, _, _, _, _)
setup_buffer_loop(b, c, info, valign, failed, v, i) ==
  IF v >= Views(info) THEN [b EXCEPT !.ret = "TRUE"]
  ELSE IF i >= info.n_planes
  THEN setup_buffer_loop([b EXCEPT !.metas = @ + 1], c, info, valign,
                         failed, v + 1, 0)
  ELSE IF (v * info.n_planes + i + 1) \in failed
  THEN [b EXCEPT !.ret = "FALSE"]
  ELSE setup_buffer_loop(
         [b EXCEPT !.buffer = Append(@, Object(gst_gl_memory_pbo_alloc(
                       World, c, "2D", "RGBA", MaxHeight, 4, i, valign)))],
         c, info, valign, failed, v, i + 1)

\* gst_gl_memory_pbo_setup_buffer
gst_gl_memory_pbo_setup_buffer(b, c, info, valign, failed) ==
  setup_buffer_loop(b, c, info, valign, failed, 0, 0)

\* the loop of gst_gl_memory_pbo_setup_wrapped from plane i: textures[i] is
\* whatever gst_gl_memory_pbo_wrapped returned, and the result is TRUE
RECURSIVE setup_wrapped_loop(_, _, _, _, _, _)
setup_wrapped_loop(b, c, info, valign, failed, i) ==
  IF i >= info.n_planes THEN [b EXCEPT !.ret = "TRUE"]
  ELSE IF (i + 1) \in failed
  THEN setup_wrapped_loop([b EXCEPT !.textures = Append(@, NoObject)],
                          c, info, valign, failed, i + 1)
  ELSE LET w == gst_gl_memory_pbo_wrapped(World, c, "2D", "RGBA", MaxHeight,
                                          4, 1, i, valign)
       IN IF w.mem.state = "crashed" THEN [b EXCEPT !.ret = "crashed"]
          ELSE setup_wrapped_loop(
                 [b EXCEPT !.textures = Append(@, Object(w))],
                 c, info, valign, failed, i + 1)

\* gst_gl_memory_pbo_setup_wrapped
gst_gl_memory_pbo_setup_wrapped(b, c, info, valign, failed) ==
  setup_wrapped_loop([b EXCEPT !.textures = <<>>], c, info, valign, failed, 0)

(* ------------------------------------------------------------ teardown *)
\* destroy of the parent texture class: deletes the texture unless the
\* handle is wrapped; notes whether the object still held its PBO
parent_destroy(w) ==
  [GlCall(w) EXCEPT !.obs.pbo_at_teardown = w.mem.pbo,
                    !.obs.tex_deleted = @ + (IF w.mem.texture_wrapped
                                             THEN 0 ELSE 1),
                    !.tex = Undef,
                    !.data = Undef,
                    !.mem.state = "dead"]

\* variant of _gl_mem_destroy that runs the parent's destroy and keeps the PBO
_gl_mem_destroy_keep(w) == parent_destroy(w)

\* _gl_mem_destroy: unref of the PBO when there is one, then the parent's
\* destroy
_gl_mem_destroy(w) ==
  LET w1 == IF w.mem.pbo THEN [w EXCEPT !.obs.pbo_freed = @ + 1] ELSE w
  IN parent_destroy([w1 EXCEPT !.mem.pbo = FALSE, !.pbo = NoPbo])

\* free of the base memory class: runs the allocator's destroy on the
\* thread that owns the context
base_memory_free(w) ==
  gst_gl_context_thread_add(w, _gl_mem_destroy(on_context_thread(w)))

(* ----------------------------------------------------------- transfers *)
\* the pixel-store parameter _upload_pbo_memory sets before the upload
set_pixel_store(w, c) ==
  IF USING_OPENGL(c) \/ USING_GLES3(c) \/ USING_OPENGL3(c)
  THEN [w EXCEPT !.gl.unpack_row_length = unpack_length(w.mem)]
  ELSE IF USING_GLES2(c)
  THEN [w EXCEPT !.gl.unpack_alignment = unpack_length(w.mem)]
  ELSE w

\* "Reset to default values" at the end of _upload_pbo_memory
reset_pixel_store(w, c) ==
  IF USING_OPENGL(c) \/ USING_GLES3(c)
  THEN [w EXCEPT !.gl.unpack_row_length = DefaultRowLength]
  ELSE IF USING_GLES2(c)
  THEN [w EXCEPT !.gl.unpack_alignment = DefaultAlignment]
  ELSE w

\* variant of _upload_pbo_memory that does not test NEED_UPLOAD
_upload_pbo_memory_unguarded(w, c) ==
  IF ~CONTEXT_SUPPORTS_PBO_UPLOAD(c) THEN w
  ELSE
    LET w1 == set_pixel_store(TransferStep(GlCall(w)), c)
        w2 == [w1 EXCEPT !.tex = w1.pbo.content,
                         !.obs.uploads = @ + 1,
                         !.obs.bound_tex = 0]
    IN reset_pixel_store(w2, c)

\* _upload_pbo_memory: PBO -> texture, only when NEED_UPLOAD is set
_upload_pbo_memory(w, c) ==
  IF ~w.mem.NEED_UPLOAD THEN w
  ELSE IF ~CONTEXT_SUPPORTS_PBO_UPLOAD(c) THEN w
  ELSE
    LET w1 == set_pixel_store(TransferStep(GlCall(w)), c)
        \* BindBuffer, BindTexture, TexSubImage2D, unbind both
        w2 == [w1 EXCEPT !.tex = w1.pbo.content,
                         !.obs.uploads = @ + 1,
                         !.obs.bound_tex = 0]
    IN reset_pixel_store(w2, c)

\* _read_pixels_to_pbo: texture -> PBO, only when NEED_DOWNLOAD is set; km
\* and kr name the results of its gst_memory_map and of the readback
_read_pixels_to_pbo(w, c, e, km, kr) ==
  IF \/ ~w.mem.pbo
     \/ ~CONTEXT_SUPPORTS_PBO_DOWNLOAD(c)
     \/ w.mem.tex_type \in Luminance
  THEN [w EXCEPT !.ret = "FALSE"]
  ELSE IF w.mem.NEED_DOWNLOAD
  THEN LET w1 == Ask(PboUse(TransferStep([w EXCEPT !.pbo.target = "PACK"]),
                            "PACK"), km)
           w2 == Ask(GlCall([w1 EXCEPT !.obs.pbo_maps = @ + 1]), kr)
       IN IF ~e[km] THEN [MapFailed(w1) EXCEPT !.ret = "FALSE"]
          ELSE IF ~e[kr] THEN [w2 EXCEPT !.ret = "FALSE"]
          ELSE [w2 EXCEPT !.pbo.content = w2.tex,
                          !.obs.staged_dl = @ + 1,
                          !.ret = "TRUE"]
  ELSE [w EXCEPT !.ret = "TRUE"]

(* ------------------------------------------------------------- mapping *)
\* direct path of the parent texture class for a CPU mapping: the object's
\* own storage, refreshed from the texture by a synchronous readback when a
\* read finds NEED_DOWNLOAD set
parent_map_cpu(w, flags, e) ==
  IF "READ" \in flags /\ w.mem.NEED_DOWNLOAD
  THEN IF e["dp"]
       THEN [Ask(TransferStep(GlCall(w)), "dp") EXCEPT
               !.data = w.tex, !.obs.direct_dl = @ + 1, !.ret = "data"]
       ELSE [Ask(TransferStep(GlCall(w)), "dp") EXCEPT
               !.obs.direct_fails = @ + 1, !.ret = "NULL"]
  ELSE [w EXCEPT !.ret = "data"]

\* direct path of the parent texture class for a GPU read mapping: uploads
\* the object's own storage into the texture when NEED_UPLOAD is set
parent_map_gpu(w, flags) ==
  IF "READ" \in flags /\ w.mem.NEED_UPLOAD
  THEN [TransferStep(GlCall(w)) EXCEPT
          !.tex = w.data, !.obs.uploads = @ + 1, !.ret = "tex"]
  ELSE [w EXCEPT !.ret = "tex"]

\* variant of _pbo_download_transfer that maps the PBO without the readback
_pbo_download_transfer_noread(w, c, flags, e) ==
  LET w0 == PboUse(TransferStep([w EXCEPT !.pbo.target = "PACK"]), "PACK")
  IN IF ~e["m3"] THEN [MapFailed(Ask(w0, "m3")) EXCEPT !.ret = "NULL"]
     ELSE [Ask(w0, "m3") EXCEPT !.pbo.map_count = @ + 1,
                                !.obs.pbo_maps = @ + 1,
                                !.ret = "pbo"]

\* _pbo_download_transfer: texture -> PBO when a read finds NEED_DOWNLOAD,
\* then the CPU mapping of the PBO
_pbo_download_transfer(w, c, flags, e) ==
  LET w0 == PboUse(TransferStep([w EXCEPT !.pbo.target = "PACK"]), "PACK")
      w1 == IF "READ" \in flags /\ w0.mem.NEED_DOWNLOAD
            THEN IF ~e["m1"]
                 THEN [MapFailed(Ask(w0, "m1")) EXCEPT !.ret = "NULL"]
                 ELSE LET r == _read_pixels_to_pbo(
                                 [Ask(w0, "m1") EXCEPT
                                    !.pbo.map_count = @ + 1,
                                    !.obs.pbo_maps = @ + 1],
                                 c, e, "m2", "rp")
                      IN IF r.ret = "FALSE"
                         THEN [r EXCEPT !.ret = "NULL"]
                         ELSE [r EXCEPT !.pbo.map_count = @ - 1,
                                        !.ret = "go"]
            ELSE [w0 EXCEPT !.ret = "go"]
  IN IF w1.ret = "NULL" THEN w1
     ELSE IF ~e["m3"] THEN [MapFailed(Ask(w1, "m3")) EXCEPT !.ret = "NULL"]
     ELSE [Ask(w1, "m3") EXCEPT !.pbo.map_count = @ + 1,
                                !.obs.pbo_maps = @ + 1,
                                !.ret = "pbo"]

\* _gl_mem_map_cpu_access
_gl_mem_map_cpu_access(w, c, flags, e) ==
  LET w1 == IF w.mem.pbo /\ CONTEXT_SUPPORTS_PBO_DOWNLOAD(c)
            THEN _pbo_download_transfer(w, c, flags, e)
            ELSE [w EXCEPT !.ret = "NULL"]
  IN IF w1.ret = "NULL" THEN parent_map_cpu(w1, flags, e) ELSE w1

\* _gl_mem_map_gpu_access
_gl_mem_map_gpu_access(w, c, flags, e) ==
  IF "READ" \in flags
  THEN IF w.mem.pbo /\ CONTEXT_SUPPORTS_PBO_UPLOAD(c)
       THEN IF ~e["m1"]
            THEN [MapFailed(Ask(PboUse(w, "UNPACK"), "m1")) EXCEPT
                    !.ret = "NULL"]
            ELSE [_upload_pbo_memory(
                    [Ask(PboUse(w, "UNPACK"), "m1") EXCEPT
                       !.obs.pbo_maps = @ + 1], c)
                    EXCEPT !.ret = "tex"]
       ELSE parent_map_gpu(w, flags)
  ELSE [w EXCEPT !.ret = "tex"]

\* variant of _gl_mem_map without the external-target test on the CPU side
_gl_mem_map_cpu_external(w, c, isGl, flags, e) ==
  IF isGl
  THEN IF w.mem.tex_target = "EXTERNAL_OES"
       THEN [w EXCEPT !.ret = "tex"]
       ELSE _gl_mem_map_gpu_access(w, c, flags, e)
  ELSE _gl_mem_map_cpu_access(w, c, flags, e)

\* variant of _gl_mem_map without the external-target test on the GPU side
_gl_mem_map_gpu_external(w, c, isGl, flags, e) ==
  IF isGl
  THEN _gl_mem_map_gpu_access(w, c, flags, e)
  ELSE IF w.mem.tex_target = "EXTERNAL_OES"
       THEN [w EXCEPT !.ret = "NULL"]
       ELSE _gl_mem_map_cpu_access(w, c, flags, e)

\* _gl_mem_map
_gl_mem_map(w, c, isGl, flags, e) ==
  IF isGl
  THEN IF w.mem.tex_target = "EXTERNAL_OES"
       THEN [w EXCEPT !.ret = "tex"]
       ELSE _gl_mem_map_gpu_access(w, c, flags, e)
  ELSE IF w.mem.tex_target = "EXTERNAL_OES"
       THEN [w EXCEPT !.ret = "NULL"]
       ELSE _gl_mem_map_cpu_access(w, c, flags, e)

\* map entry point of the base memory class: runs the allocator's map under
\* the object's lock and, when it returned data, records which side is now
\* current (a write marks the other side stale, the mapped side is resolved)
base_memory_map(w, c, isGl, flags, e) ==
  LET r == gst_gl_context_thread_add(w,
             g_mutex_unlock(
               _gl_mem_map(g_mutex_lock(on_context_thread(w)),
                           c, isGl, flags, e)))
  IN IF r.ret = "NULL" THEN r
     ELSE IF isGl
     THEN [r EXCEPT !.mem.NEED_DOWNLOAD = @ \/ ("WRITE" \in flags),
                    !.mem.NEED_UPLOAD = FALSE]
     ELSE [r EXCEPT !.mem.NEED_UPLOAD = @ \/ ("WRITE" \in flags),
                    !.mem.NEED_DOWNLOAD = FALSE]

\* the bytes a returned CPU pointer shows
Shown(w) == IF w.ret = "pbo" THEN w.pbo.content
            ELSE IF w.ret = "data" THEN w.data ELSE Undef

\* variant of _gl_mem_unmap_cpu_access that leaves the PBO mapped
_gl_mem_unmap_cpu_access_keep(w, c, staged, how) ==
  IF ~w.mem.pbo \/ ~CONTEXT_SUPPORTS_PBO_DOWNLOAD(c) THEN w
  ELSE [w EXCEPT !.pbo.target = "PACK"]

\* _gl_mem_unmap_cpu_access: unmaps the PBO with the map info recorded in
\* user_data[0] at map time.  A mapping served by the direct path recorded
\* none, so the PBO is unmapped with an indeterminate pointer: how names the
\* outcome ("none" the pointer is rejected by gst_memory_unmap, "crash" the
\* process faults)
_gl_mem_unmap_cpu_access(w, c, staged, how) ==
  IF ~w.mem.pbo \/ ~CONTEXT_SUPPORTS_PBO_DOWNLOAD(c) THEN w
  ELSE LET w1 == [w EXCEPT !.pbo.target = "PACK"]
       IN IF staged THEN [w1 EXCEPT !.pbo.map_count = @ - 1,
                                    !.obs.pbo_unmaps = @ + 1]
          ELSE IF how = "crash"
          THEN [Ask(w1, "how") EXCEPT !.mem.state = "crashed"]
          ELSE Ask(w1, "how")

\* _gl_mem_unmap
_gl_mem_unmap(w, c, m, how) ==
  IF ~m.gl THEN _gl_mem_unmap_cpu_access(w, c, m.staged, how) ELSE w

(* ---------------------------------------------------------------- copy *)
\* gst_gl_format_from_gl_texture_type and the GL type chosen for it
gl_format(type) ==
  CASE type = "RGBA" -> "GL_RGBA"
    [] type = "RGB16" -> "GL_RGB"
    [] type = "LUMINANCE" -> "GL_LUMINANCE"
    [] OTHER -> "GL_LUMINANCE_ALPHA"

gl_type(type) ==
  IF type = "RGB16" THEN "GL_UNSIGNED_SHORT_5_6_5" ELSE "GL_UNSIGNED_BYTE"

\* _new_texture: GenTextures yields id (0 when the driver made none), the
\* texture is bound, specified and unbound
_new_texture(w, id) ==
  [GlCall(w) EXCEPT !.dst = [tex_id |-> id, content |-> Undef],
            !.obs.tex_made = @ + (IF id = 0 THEN 0 ELSE 1),
            !.obs.bound_tex = 0]

\* gst_gl_memory_copy_teximage: texel-for-texel copy of the source texture
\* through the bound framebuffer
gst_gl_memory_copy_teximage(w) ==
  [GlCall(w) EXCEPT !.dst.content = w.tex, !.obs.dst_writes = @ + 1]

\* variant of the fbo_error exit that leaves the framebuffer alive
fbo_error_leak(w) ==
  [w EXCEPT !.dst.tex_id = 0, !.obs.result_writes = @ + 1, !.ret = "FALSE"]

\* the fbo_error exit of _gl_mem_copy_thread; deleting the bound framebuffer
\* makes the binding revert to 0
fbo_error(w) ==
  [w EXCEPT !.gl.fbos = @ - 1,
            !.obs.bound_fbo = 0,
            !.obs.fbo_deleted = @ + 1,
            !.dst.tex_id = 0,
            !.obs.result_writes = @ + 1,
            !.ret = "FALSE"]

\* variant of the error exit that leaves copy_params.result unwritten
copy_error_silent(w) == w

\* the error exit of _gl_mem_copy_thread
copy_error(w) == [w EXCEPT !.obs.result_writes = @ + 1, !.ret = "FALSE"]

\* variant of the respecify branch without its precondition tests
copy_respecify_unchecked(w, c, e) ==
  LET r == _read_pixels_to_pbo(w, c, e, "m1", "rp")
      w1 == Ask(PboUse(TransferStep([r EXCEPT !.pbo.target = "UNPACK"]),
                       "UNPACK"), "m2")
  IN IF ~e["m2"] THEN fbo_error(MapFailed(w1))
     ELSE [w1 EXCEPT !.obs.pbo_maps = @ + 1,
                     !.dst.content = w1.pbo.content,
                     !.obs.dst_writes = @ + 1,
                     !.ret = "go"]

\* the respecify branch of _gl_mem_copy_thread, entered with the
\* framebuffer made and the destination bound
copy_respecify(w, c, e) ==
  IF ~c.GenBuffers \/ ~w.mem.pbo
  THEN fbo_error([w EXCEPT !.obs.bound_tex = 0])
  ELSE IF /\ "GLES2" \in c.api
          /\ (\/ gl_format(w.mem.tex_type) # "GL_RGBA"
              \/ gl_type(w.mem.tex_type) # "GL_UNSIGNED_BYTE")
  THEN fbo_error([w EXCEPT !.obs.bound_tex = 0])
  ELSE LET r == _read_pixels_to_pbo(w, c, e, "m1", "rp")
           w1 == Ask(PboUse(TransferStep([r EXCEPT !.pbo.target = "UNPACK"]),
                       "UNPACK"), "m2")
       IN IF ~e["m2"] THEN fbo_error(MapFailed(w1))
          ELSE [w1 EXCEPT !.obs.pbo_maps = @ + 1,
                          !.dst.content = w1.pbo.content,
                          !.obs.dst_writes = @ + 1,
                          !.ret = "go"]

\* variant of _gl_mem_copy_thread without the size test of the respecify path
_gl_mem_copy_thread_nosize(w, c, tex_id, out_height, out_stride, respecify, newId, e) ==
  LET w0 == [w EXCEPT !.dst = [tex_id |-> tex_id, content |-> Undef]]
  IN IF ~c.GenFramebuffers THEN copy_error(w0)
     ELSE
       LET w1 == IF tex_id = 0 THEN _new_texture(Ask(w0, "newId"), newId)
                 ELSE w0
           w2 == [GlCall(w1) EXCEPT !.gl.fbos = @ + 1,
                            !.obs.bound_fbo = FboId,
                            !.obs.fbo_made = @ + 1,
                            !.obs.bound_tex = w1.dst.tex_id,
                            !.obs.dst_binds = @ + 1]
           w3 == IF respecify THEN copy_respecify(w2, c, e)
                 ELSE [gst_gl_memory_copy_teximage(w2) EXCEPT !.ret = "go"]
       IN IF w3.ret = "FALSE" THEN w3
          ELSE [w3 EXCEPT !.obs.bound_tex = 0,
                          !.obs.bound_fbo = 0,
                          !.gl.fbos = @ - 1,
                          !.obs.fbo_deleted = @ + 1,
                          !.obs.result_writes = @ + 1,
                          !.ret = "TRUE"]

\* _gl_mem_copy_thread
_gl_mem_copy_thread(w, c, tex_id, out_height, out_stride, respecify, newId, e) ==
  LET in_size == w.mem.height * w.mem.stride
      out_size == out_height * out_stride
      w0 == [w EXCEPT !.dst = [tex_id |-> tex_id, content |-> Undef]]
  IN IF ~c.GenFramebuffers THEN copy_error(w0)
     ELSE IF respecify /\ in_size # out_size THEN copy_error(w0)
     ELSE
       LET w1 == IF tex_id = 0 THEN _new_texture(Ask(w0, "newId"), newId)
                 ELSE w0
           \* GenFramebuffers, BindFramebuffer, FramebufferTexture2D,
           \* BindTexture (out_tex_target, tex_id)
           w2 == [GlCall(w1) EXCEPT !.gl.fbos = @ + 1,
                            !.obs.bound_fbo = FboId,
                            !.obs.fbo_made = @ + 1,
                            !.obs.bound_tex = w1.dst.tex_id,
                            !.obs.dst_binds = @ + 1]
           w3 == IF respecify THEN copy_respecify(w2, c, e)
                 ELSE [gst_gl_memory_copy_teximage(w2) EXCEPT !.ret = "go"]
       IN IF w3.ret = "FALSE" THEN w3
          ELSE [w3 EXCEPT !.obs.bound_tex = 0,
                          !.obs.bound_fbo = 0,
                          !.gl.fbos = @ - 1,
                          !.obs.fbo_deleted = @ + 1,
                          !.obs.result_writes = @ + 1,
                          !.ret = "TRUE"]

\* variant of gst_gl_memory_pbo_copy_into_texture that runs the copy on the
\* caller's thread
gst_gl_memory_pbo_copy_into_texture_inline(w, c, tex_id, out_height, out_stride, respecify, newId, e) ==
  _gl_mem_copy_thread([w EXCEPT !.ret = "unset"], c, tex_id, out_height,
                      out_stride, respecify, newId, e)

\* gst_gl_memory_pbo_copy_into_texture: copy_params.result starts out
\* unwritten, the copy is dispatched and the result field is returned
gst_gl_memory_pbo_copy_into_texture(w, c, tex_id, out_height, out_stride, respecify, newId, e) ==
  gst_gl_context_thread_add(w,
    _gl_mem_copy_thread(on_context_thread([w EXCEPT !.ret = "unset"]),
                        c, tex_id, out_height, out_stride, respecify, newId, e))

(* --------------------------------------------------------- memory copy *)
\* the size of the object as a GstMemory
MemSize(m) == m.height * m.stride

\* fallback_mem_copy of the base allocator: a system-memory copy of the
\* requested bytes
fallback_mem_copy(w) ==
  [w EXCEPT !.obs.copy_path = "fallback", !.ret = "sysmem"]

\* gst_gl_base_memory_memcpy: copies the CPU bytes of the source into the
\* destination
gst_gl_base_memory_memcpy(w, e) ==
  IF e["mc"] THEN [Ask(w, "mc") EXCEPT !.obs.copy_path = "memcpy", !.ret = "TRUE"]
  ELSE [Ask(w, "mc") EXCEPT !.ret = "FALSE"]

\* gst_gl_memory_copy_into: copies the source texture into the destination's
\* texture
gst_gl_memory_copy_into(w, e) ==
  IF e["ci"] THEN [Ask(w, "ci") EXCEPT !.obs.copy_path = "teximage", !.ret = "TRUE"]
  ELSE [Ask(w, "ci") EXCEPT !.ret = "FALSE"]

\* variant of _gl_mem_copy without the test for a partial copy
_gl_mem_copy_full(w, c, offset, size, e) ==
  IF w.mem.tex_target = "EXTERNAL_OES" THEN [w EXCEPT !.ret = "NULL"]
  ELSE
    LET w1 == [w EXCEPT !.obs.dest_made = @ + 1]
        unref(x) == [x EXCEPT !.obs.dest_unref = @ + 1, !.ret = "NULL"]
    IN IF w1.mem.NEED_UPLOAD
       THEN LET r == gst_gl_base_memory_memcpy(w1, e)
            IN IF r.ret = "FALSE" THEN unref(r) ELSE [r EXCEPT !.ret = "dest"]
       ELSE IF ~e["dm"] THEN unref(Ask(w1, "dm"))
       ELSE LET r == gst_gl_memory_copy_into(
                       [Ask(w1, "dm") EXCEPT !.obs.dest_maps = @ + 1], e)
            IN IF r.ret = "FALSE"
               THEN unref([r EXCEPT !.obs.dest_maps = @ - 1])
               ELSE [r EXCEPT !.obs.dest_maps = @ - 1, !.ret = "dest"]

\* _gl_mem_copy, the allocator's copy: no copy of an external texture, the
\* system-memory fallback for a partial copy, else a new object filled from
\* the CPU bytes when the source has NEED_UPLOAD set and from the texture
\* otherwise; on failure the new object is unreffed
_gl_mem_copy(w, c, offset, size, e) ==
  IF w.mem.tex_target = "EXTERNAL_OES" THEN [w EXCEPT !.ret = "NULL"]
  ELSE IF offset > 0 \/ size < MemSize(w.mem) THEN fallback_mem_copy(w)
  ELSE
    LET w1 == [w EXCEPT !.obs.dest_made = @ + 1]
        unref(x) == [x EXCEPT !.obs.dest_unref = @ + 1, !.ret = "NULL"]
    IN IF w1.mem.NEED_UPLOAD
       THEN LET r == gst_gl_base_memory_memcpy(w1, e)
            IN IF r.ret = "FALSE" THEN unref(r) ELSE [r EXCEPT !.ret = "dest"]
       ELSE IF ~e["dm"] THEN unref(Ask(w1, "dm"))
       ELSE LET r == gst_gl_memory_copy_into(
                       [Ask(w1, "dm") EXCEPT !.obs.dest_maps = @ + 1], e)
            IN IF r.ret = "FALSE"
               THEN unref([r EXCEPT !.obs.dest_maps = @ - 1])
               ELSE [r EXCEPT !.obs.dest_maps = @ - 1, !.ret = "dest"]

(* -------------------------------------------------- explicit transfers *)
\* _download_transfer, run by gst_gl_memory_pbo_download_transfer
_download_transfer(w, c, e) ==
  g_mutex_unlock(_read_pixels_to_pbo(g_mutex_lock(w), c, e, "m1", "rp"))

\* gst_gl_memory_pbo_download_transfer
gst_gl_memory_pbo_download_transfer(w, c, e) ==
  gst_gl_context_thread_add(w, _download_transfer(on_context_thread(w), c, e))

\* _upload_transfer: retargets the PBO and maps and unmaps it for GL reading
_upload_transfer(w, c, e) ==
  LET w1 == Ask(PboUse(TransferStep([g_mutex_lock(w) EXCEPT
                                       !.pbo.target = "UNPACK"]),
                       "UNPACK"), "m1")
  IN g_mutex_unlock(IF ~e["m1"] THEN MapFailed(w1)
                    ELSE [w1 EXCEPT !.obs.pbo_maps = @ + 1])

\* gst_gl_memory_pbo_upload_transfer
gst_gl_memory_pbo_upload_transfer(w, c, e) ==
  IF w.mem.pbo /\ CONTEXT_SUPPORTS_PBO_UPLOAD(c)
  THEN gst_gl_context_thread_add(w, _upload_transfer(on_context_thread(w), c, e))
  ELSE w

(* --------------------------------------------------------- base filter *)
\* GstGLBaseFilter (gstglbasefilter.c).  The context reference of the filter
\* is "NULL", "new" (made by gst_gl_context_new, not or not successfully
\* created), "created" (made and created by the filter) or "peer" (handed
\* over by another element).  running is the subclass's view: its gl_start
\* has been invoked and its gl_stop has not been invoked since.
FilterContexts == {"NULL", "new", "created", "peer"}

NoFilterObs ==
  [dispatched |-> 0, completed |-> 0, events |-> <<>>, creates |-> 0,
   queries |-> 0, share |-> "none"]

\* the class structure after gst_gl_base_filter_class_init and the instance
\* after gst_gl_base_filter_init: no subclass callback, every field zero
NoFilter ==
  [ready |-> FALSE,
   klass |-> [gl_start |-> FALSE, gl_stop |-> FALSE],
   context |-> "NULL", display |-> FALSE, other_context |-> FALSE,
   gl_result |-> FALSE, running |-> FALSE, thread |-> "app",
   op |-> "none", ret |-> "none", before |-> "NULL",
   obs |-> NoFilterObs]

\* what a handler notes down: a step, the thread it ran on, the context
\* reference the filter held and whether the subclass was running
Event(w, what) ==
  [w EXCEPT !.obs.events =
     Append(@, [what |-> what, thread |-> w.thread, on |-> w.context,
                running |-> w.running])]

\* results of the calls a handler makes to the pipeline and the GL library:
\* display (a display can be had), other (the application shares a context),
\* src and sink (the peer on that pad answers the local-context query with a
\* context), create (gst_gl_context_create succeeds), start (the subclass's
\* gl_start succeeds), peer and parent (the forwarded query succeeds)
FilterEnvKeys ==
  {"display", "other", "src", "sink", "create", "start", "peer", "parent"}

\* the environments in which only calls among keys can fail
FilterEnvs(keys) ==
  {[k \in FilterEnvKeys |-> k \notin S] : S \in SUBSET keys}

Bool(b) == IF b THEN "TRUE" ELSE "FALSE"

\* gst_gl_ensure_element_data: makes sure the element has a display, asking
\* the neighbours and the application, which may also hand over the
\* application's context; FALSE when no display can be had
gst_gl_ensure_element_data(w, e) ==
  IF ~w.display /\ ~e["display"]
  THEN [w EXCEPT !.ret = "FALSE"]
  ELSE [w EXCEPT !.display = TRUE,
                 !.other_context = @ \/ e["other"],
                 !.ret = "TRUE"]

\* gst_gl_handle_set_context: stores the display or the application's
\* context that the GstContext carries
gst_gl_handle_set_context(w, what) ==
  CASE what = "display" -> [w EXCEPT !.display = TRUE]
    [] what = "other" -> [w EXCEPT !.other_context = TRUE]
    [] OTHER -> w

gst_gl_base_filter_set_context(w, what) ==
  [gst_gl_handle_set_context(w, what) EXCEPT !.ret = "void"]

\* one gst_gl_run_query of _find_local_gl_context
find_local_query(w, answered) ==
  IF w.context # "NULL"
  THEN w
  ELSE [w EXCEPT !.obs.queries = @ + 1,
                 !.context = IF answered THEN "peer" ELSE "NULL"]

_find_local_gl_context(w, e) ==
  IF w.context # "NULL"
  THEN [w EXCEPT !.ret = "TRUE"]
  ELSE LET w1 == find_local_query(w, e["src"])
           w2 == find_local_query(w1, e["sink"])
       IN  [w2 EXCEPT !.ret = Bool(w2.context # "NULL")]

_ensure_gl_setup(w, e) ==
  LET w1 == gst_gl_ensure_element_data(w, e)
  IN  IF w1.ret = "FALSE"
      THEN w1
      ELSE [_find_local_gl_context(w1, e) EXCEPT !.ret = "TRUE"]

QueryTypes == {"ALLOCATION", "CONTEXT", "LOCAL_CONTEXT", "OTHER"}

\* the query of the parent class
parent_query(w, e) == [w EXCEPT !.ret = Bool(e["parent"])]

gst_gl_base_filter_query(w, type, direction, passthrough, e) ==
  CASE type = "ALLOCATION" ->
         IF direction = "SINK" /\ passthrough
         THEN LET w1 == _ensure_gl_setup(w, e)
              IN  IF w1.ret = "FALSE"
                  THEN w1
                  ELSE [w1 EXCEPT !.ret = Bool(e["peer"])]
         ELSE parent_query(w, e)
    [] type = "CONTEXT" ->
         \* gst_gl_handle_context_query answers from the display and the
         \* application's context the filter holds
         IF w.display \/ w.other_context
         THEN [w EXCEPT !.ret = "TRUE"]
         ELSE parent_query(w, e)
    [] type = "LOCAL_CONTEXT" ->
         IF w.context # "NULL"
         THEN [w EXCEPT !.ret = "TRUE"]
         ELSE parent_query(w, e)
    [] OTHER -> parent_query(w, e)

gst_gl_base_filter_gl_start(w, e) ==
  IF w.klass.gl_start
  THEN [Event(w, "gl_start") EXCEPT !.running = TRUE,
                                    !.gl_result = e["start"]]
  ELSE [w EXCEPT !.gl_result = TRUE]

gst_gl_base_filter_gl_stop(w) ==
  IF w.klass.gl_stop
  THEN [Event(w, "gl_stop") EXCEPT !.running = FALSE]
  ELSE w

\* variant of gst_gl_base_filter_reset that drops the context before it
\* dispatches gl_stop
gst_gl_base_filter_reset_late(w) ==
  LET w1 == IF w.context # "NULL"
            THEN LET w0 == [Event(w, "unref_context") EXCEPT !.context = "NULL"]
                 IN  IF w.klass.gl_stop
                     THEN gst_gl_context_thread_add(w0,
                            gst_gl_base_filter_gl_stop(on_context_thread(w0)))
                     ELSE w0
            ELSE w
  IN  [w1 EXCEPT !.display = FALSE, !.other_context = FALSE]

gst_gl_base_filter_reset(w) ==
  LET w1 == IF w.context # "NULL"
            THEN LET w0 == IF w.klass.gl_stop
                           THEN gst_gl_context_thread_add(w,
                                  gst_gl_base_filter_gl_stop(on_context_thread(w)))
                           ELSE w
                 IN  [Event(w0, "unref_context") EXCEPT !.context = "NULL"]
            ELSE w
  IN  [w1 EXCEPT !.display = FALSE, !.other_context = FALSE]

gst_gl_base_filter_start(w, e) == gst_gl_ensure_element_data(w, e)

gst_gl_base_filter_stop(w) ==
  [gst_gl_base_filter_reset(w) EXCEPT !.ret = "TRUE"]

\* what the allocation query carries for the filter: no upload meta, a
\* context object, or the handle of a context to wrap
Metas == {"none", "context", "handle"}

gst_gl_base_filter_decide_allocation(w, meta, e) ==
  LET w1 == _ensure_gl_setup(w, e)
  IN  IF w1.ret = "FALSE"
      THEN w1
      ELSE
        LET w2 == IF w1.context = "NULL" /\ meta = "context"
                  THEN [w1 EXCEPT !.context = "peer"]
                  ELSE w1
            \* the context to share with: the one wrapped from the handle,
            \* else the application's
            other_context == IF w1.context = "NULL" /\ meta = "handle"
                             THEN "wrapped"
                             ELSE IF w2.other_context THEN "application"
                                  ELSE "none"
            w3 == IF w2.context = "NULL"
                  THEN [Event([w2 EXCEPT !.context = "new"], "create")
                          EXCEPT !.obs.creates = @ + 1,
                                 !.obs.share = other_context,
                                 !.context = IF e["create"] THEN "created"
                                             ELSE "new"]
                  ELSE w2
        IN  IF w2.context = "NULL" /\ ~e["create"]
            THEN [w3 EXCEPT !.ret = "FALSE"]
            ELSE LET w4 == gst_gl_context_thread_add(w3,
                             gst_gl_base_filter_gl_start(
                               on_context_thread(w3), e))
                 IN  [w4 EXCEPT !.ret = Bool(w4.gl_result)]

(* ------------------------------------------------------------- actions *)
Init ==
  /\ ctx \in Contexts
  /\ mem = NoMem
  /\ pbo = NoPbo
  /\ tex = Undef
  /\ data = Undef
  /\ gl = InitGl
  /\ maps = <<>>
  /\ dst = NoDst
  /\ last = NoLast
  /\ rt = NoRt
  /\ once = NoOnce
  /\ setup = NoSetup
  /\ filter = NoFilter

\* the state a handler leaves
Apply(w) ==
  /\ mem' = w.mem
  /\ pbo' = w.pbo
  /\ tex' = w.tex
  /\ data' = w.data
  /\ gl' = w.gl
  /\ dst' = w.dst

Live == mem.state = "live"

\* gst_gl_memory_pbo_alloc: the texture content is undefined
AllocOp ==
  /\ mem.state = "none"
  /\ \E target \in Targets, type \in TexTypes, h \in SrcHeights,
        s \in SrcStrides :
       Apply(gst_gl_memory_pbo_alloc(World, ctx, target, type, h, s,
                                     0, NoValign))
  /\ last' = [NoLast EXCEPT !.op = "alloc"]
  /\ UNCHANGED <<ctx, maps>>

\* gst_gl_memory_pbo_wrapped_texture: the caller's texture holds content d
WrappedTextureOp ==
  /\ mem.state = "none"
  /\ \E target \in Targets, type \in TexTypes, h \in SrcHeights,
        s \in SrcStrides, d \in Written :
       Apply(gst_gl_memory_pbo_wrapped_texture(
               [World EXCEPT !.tex = d], ctx, target, type, h, s,
               0, NoValign))
  /\ last' = [NoLast EXCEPT !.op = "wrapped_texture"]
  /\ UNCHANGED <<ctx, maps>>

\* gst_gl_memory_pbo_wrapped: the caller's buffer holds content d
WrappedOp(d) ==
  /\ mem.state = "none"
  /\ \E target \in Targets, type \in TexTypes, h \in SrcHeights,
        s \in SrcStrides :
       Apply(gst_gl_memory_pbo_wrapped(World, ctx, target, type, h, s, d,
                                       0, NoValign))
  /\ last' = [NoLast EXCEPT !.op = "wrapped", !.shown = d]
  /\ UNCHANGED <<ctx, maps>>

\* GstMemory locking: a further mapping must ask for no more access than
\* the mappings already outstanding hold
LockOk(flags) ==
  IF maps = <<>> THEN TRUE ELSE flags \subseteq maps[1].flags

\* gst_memory_map on the object, the library results drawn from envs
MapOp(isGl, flags, envs) ==
  /\ Live
  /\ Len(maps) < MaxMaps
  /\ pbo.map_count < MaxPboMaps
  /\ LockOk(flags)
  /\ \E e \in envs :
       \E r \in {base_memory_map(World, ctx, isGl, flags, e)} :
       LET ok == r.ret # "NULL"
       IN /\ Canonical(e, r)
          /\ Apply(r)
          /\ maps' = IF ok
                     THEN Append(maps, [gl |-> isGl, flags |-> flags,
                                        staged |-> (r.ret = "pbo")])
                     ELSE maps
          /\ last' = [NoLast EXCEPT !.op = "map", !.gl = isGl,
                        !.flags = flags, !.ok = ok, !.ret = r.ret,
                        !.shown = Shown(r),
                        !.start_up = mem.NEED_UPLOAD,
                        !.start_down = mem.NEED_DOWNLOAD,
                        !.obs = Seen(r)]
  /\ UNCHANGED ctx

Remove(seq, i) == SubSeq(seq, 1, i - 1) \o SubSeq(seq, i + 1, Len(seq))

\* gst_memory_unmap of the i-th outstanding mapping of the object
UnmapOp(i) ==
  /\ Live
  /\ i \in 1..Len(maps)
  /\ \E how \in {"none", "crash"} :
       \E r \in {_gl_mem_unmap(World, ctx, maps[i], how)} :
          /\ how = "none" \/ "how" \in r.obs.asked
          /\ Apply(r)
          /\ maps' = Remove(maps, i)
          /\ last' = [NoLast EXCEPT !.op = "unmap", !.gl = maps[i].gl,
                        !.ret = IF maps[i].gl THEN "tex"
                                ELSE IF maps[i].staged THEN "pbo" ELSE "data",
                        !.obs = Seen(r)]
  /\ UNCHANGED ctx

\* the application fills the bytes the i-th mapping, a CPU write mapping,
\* returned
CpuWriteOp(i, d) ==
  /\ Live
  /\ i \in 1..Len(maps)
  /\ ~maps[i].gl
  /\ "WRITE" \in maps[i].flags
  /\ IF maps[i].staged
     THEN pbo' = [pbo EXCEPT !.content = d] /\ data' = data
     ELSE data' = d /\ pbo' = pbo
  /\ dst' = NoDst
  /\ last' = [NoLast EXCEPT !.op = "cpu_write"]
  /\ UNCHANGED <<ctx, mem, tex, gl, maps>>

\* allocation through the allocator's alloc; a wrapped texture holds content
\* t, wrapped system memory holds content d
PboAllocOp ==
  /\ mem.state = "none"
  /\ \E alloc_flags \in AllocFlags, target \in Targets, type \in TexTypes,
        h \in SrcHeights, s \in SrcStrides, d \in Written :
       \E r \in {_gl_mem_pbo_alloc(
                   [World EXCEPT !.tex = IF "WRAP_GPU_HANDLE" \in alloc_flags
                                         THEN d ELSE Undef],
                   ctx, alloc_flags, target, type, h, s, d, 0, NoValign)} :
          /\ Apply(r)
          /\ last' = [NoLast EXCEPT !.op = "pbo_alloc",
                        !.flags = alloc_flags,
                        !.ok = (r.ret = "mem"),
                        !.shown = IF "WRAP_SYSMEM" \in alloc_flags
                                  THEN d ELSE Undef]
  /\ UNCHANGED <<ctx, maps>>

\* the last reference to the object is dropped: the allocator's destroy
DestroyOp ==
  /\ Live
  /\ maps = <<>>
  /\ \E r \in {base_memory_free(World)} :
       /\ Apply(r)
       /\ last' = [NoLast EXCEPT !.op = "destroy",
                     !.had_pbo = mem.pbo,
                     !.start_up = mem.NEED_UPLOAD,
                     !.start_down = mem.NEED_DOWNLOAD,
                     !.obs = Seen(r)]
  /\ UNCHANGED <<ctx, maps>>

\* gst_gl_memory_pbo_download_transfer
DownloadTransferOp ==
  /\ Live
  /\ \E e \in TransferEnvs :
       \E r \in {gst_gl_memory_pbo_download_transfer(World, ctx, e)} :
          /\ Canonical(e, r)
          /\ Apply(r)
          /\ last' = [NoLast EXCEPT !.op = "download_transfer",
                        !.start_up = mem.NEED_UPLOAD,
                        !.start_down = mem.NEED_DOWNLOAD,
                        !.obs = Seen(r)]
  /\ UNCHANGED <<ctx, maps>>

\* gst_gl_memory_pbo_upload_transfer
UploadTransferOp ==
  /\ Live
  /\ \E e \in TransferEnvs :
       \E r \in {gst_gl_memory_pbo_upload_transfer(World, ctx, e)} :
          /\ Canonical(e, r)
          /\ Apply(r)
          /\ last' = [NoLast EXCEPT !.op = "upload_transfer",
                        !.start_up = mem.NEED_UPLOAD,
                        !.start_down = mem.NEED_DOWNLOAD,
                        !.obs = Seen(r)]
  /\ UNCHANGED <<ctx, maps>>

\* gst_gl_memory_pbo_copy_into_texture, called between mappings: the copy
\* runs to completion on the context thread and its result is returned
CopyIntoOp(tex_id, h, s, respecify) ==
  /\ Live
  /\ maps = <<>>
  /\ \E newId \in (IF tex_id = 0 THEN {0, NewTexId} ELSE {NewTexId}),
        e \in (IF respecify THEN CopyEnvs ELSE {Failing({})}) :
       \E r \in {gst_gl_memory_pbo_copy_into_texture(
                     World, ctx, tex_id, h, s, respecify, newId, e)} :
          /\ Canonical(e, r)
          /\ newId = NewTexId \/ "newId" \in r.obs.asked
          /\ Apply(r)
          /\ last' = [NoLast EXCEPT !.op = "copy",
                        !.ok = (r.ret = "TRUE"), !.ret = r.ret,
                        !.start_up = mem.NEED_UPLOAD,
                        !.start_down = mem.NEED_DOWNLOAD,
                        !.respecify = respecify,
                        !.differ = (h * s # mem.height * mem.stride),
                        !.tex_in = tex_id,
                        !.obs = Seen(r)]
  /\ UNCHANGED <<ctx, maps>>

\* gst_memory_copy of the object, between mappings: offset and size select
\* the whole object or a part of it
MemCopyOp ==
  /\ Live
  /\ maps = <<>>
  /\ \E offset \in {0, 1}, short \in {0, 1}, e \in MemCopyEnvs :
       \E r \in {_gl_mem_copy(World, ctx, offset,
                               MemSize(mem) - offset - short, e)} :
          /\ Canonical(e, r)
          /\ Apply(r)
          /\ last' = [NoLast EXCEPT !.op = "mem_copy",
                        !.ok = (r.ret # "NULL"), !.ret = r.ret,
                        !.start_up = mem.NEED_UPLOAD,
                        !.start_down = mem.NEED_DOWNLOAD,
                        !.partial = (offset > 0 \/ short > 0),
                        !.obs = Seen(r)]
  /\ UNCHANGED <<ctx, maps>>

(* ------------------------------------------------------- specification *)
Alloc == AllocOp /\ UNCHANGED <<rt, once, setup, filter>>

WrappedTexture == WrappedTextureOp /\ UNCHANGED <<rt, once, setup, filter>>

Wrapped == (\E d \in Written : WrappedOp(d)) /\ UNCHANGED <<rt, once, setup, filter>>

Map ==
  /\ \E isGl \in BOOLEAN, flags \in MapFlags :
       MapOp(isGl, flags, IF isGl THEN GpuMapEnvs ELSE CpuMapEnvs)
  /\ UNCHANGED <<rt, once, setup, filter>>

Unmap == (\E i \in 1..MaxMaps : UnmapOp(i)) /\ UNCHANGED <<rt, once, setup, filter>>

DownloadTransfer == DownloadTransferOp /\ UNCHANGED <<rt, once, setup, filter>>

UploadTransfer == UploadTransferOp /\ UNCHANGED <<rt, once, setup, filter>>

PboAlloc == PboAllocOp /\ UNCHANGED <<rt, once, setup, filter>>

Destroy == DestroyOp /\ UNCHANGED <<rt, once, setup, filter>>

\* _gl_mem_copy_thread reads out_height and out_stride only in the size test
\* of a respecify copy: one shape stands for every copy without respecify,
\* and one for every respecify copy of another size
OutShape(h, s, respecify) ==
  IF respecify
  THEN h * s = MemSize(mem) \/ (h = MaxHeight /\ s = 8)
  ELSE h = MaxHeight /\ s = 4

CopyInto ==
  /\ \E tex_id \in {0, DstTexId}, h \in Heights, s \in Strides,
        respecify \in BOOLEAN :
       /\ OutShape(h, s, respecify)
       /\ CopyIntoOp(tex_id, h, s, respecify)
  /\ UNCHANGED <<rt, once, setup, filter>>

Next ==
  \/ Alloc
  \/ WrappedTexture
  \/ Wrapped
  \/ Map
  \/ Unmap
  \/ DownloadTransfer
  \/ UploadTransfer
  \/ CopyInto
  \/ PboAlloc
  \/ Destroy

Spec == Init /\ [][Next]_vars

(* --------------------------------------------------------- memory copy *)
\* copies of an object in each state a constructor or a mapping leaves it in
MemCopy == MemCopyOp /\ UNCHANGED <<rt, once, setup, filter>>

NextMemCopy ==
  \/ Alloc
  \/ WrappedTexture
  \/ Wrapped
  \/ PboAlloc
  \/ Map
  \/ Unmap
  \/ MemCopy

SpecMemCopy == Init /\ [][NextMemCopy]_vars

(* ---------------------------------------------------------- round trip *)
\* The round trip of the testable properties, with every library call
\* succeeding: an object is constructed, bytes d reach it through a CPU write
\* mapping or through gst_gl_memory_pbo_wrapped, then it is mapped for GPU
\* reading, unmapped, and mapped for CPU reading.  rt follows the steps.
NoFailure == {Failing({})}

\* a step of the round trip leaves rt at v
RtStep(v) == rt' = v /\ UNCHANGED <<once, setup, filter>>

RtAlloc == AllocOp /\ RtStep([phase |-> "fresh", d |-> Undef])

RtWrappedTexture == WrappedTextureOp /\ RtStep([phase |-> "fresh", d |-> Undef])

RtWrapped ==
  \E d \in Written :
    /\ WrappedOp(d)
    /\ RtStep([phase |-> "written", d |-> d])

RtMapWrite ==
  /\ rt.phase = "fresh"
  /\ \E flags \in {{"WRITE"}, {"READ", "WRITE"}} : MapOp(FALSE, flags, NoFailure)
  /\ RtStep([rt EXCEPT !.phase = IF maps' # <<>> THEN "mapped" ELSE "failed"])

RtCpuWrite ==
  /\ rt.phase = "mapped"
  /\ \E d \in Written : CpuWriteOp(1, d) /\ RtStep([phase |-> "filled", d |-> d])

RtUnmapWrite ==
  /\ rt.phase = "filled"
  /\ UnmapOp(1)
  /\ RtStep([rt EXCEPT !.phase = "written"])

RtGpuRead ==
  /\ rt.phase = "written"
  /\ MapOp(TRUE, {"READ"}, NoFailure)
  /\ RtStep([rt EXCEPT !.phase = IF maps' # <<>> THEN "gpu" ELSE "failed"])

RtGpuUnmap ==
  /\ rt.phase = "gpu"
  /\ UnmapOp(1)
  /\ RtStep([rt EXCEPT !.phase = "idle"])

RtCpuRead ==
  /\ rt.phase = "idle"
  /\ MapOp(FALSE, {"READ"}, NoFailure)
  /\ RtStep([rt EXCEPT !.phase = IF maps' # <<>> THEN "check" ELSE "failed"])

NextRoundTrip ==
  \/ RtAlloc
  \/ RtWrappedTexture
  \/ RtWrapped
  \/ RtMapWrite
  \/ RtCpuWrite
  \/ RtUnmapWrite
  \/ RtGpuRead
  \/ RtGpuUnmap
  \/ RtCpuRead

SpecRoundTrip == Init /\ [][NextRoundTrip]_vars

(* -------------------------------------------------------- frame set-up *)
\* the GstVideoInfo of a frame: its planes, its views and whether the
\* views are separated
Infos ==
  [n_planes : 1..MaxPlanes, views : 1..MaxViews, separated : BOOLEAN]

Valigns == {NoValign, ValignAddr}

\* gst_gl_memory_pbo_setup_buffer on the buffer; at most one allocation
\* yields no object, since the first one ends the call
SetupBufferOp ==
  \E info \in Infos, valign \in Valigns :
    /\ Len(setup.buffer) + Views(info) * info.n_planes <= MaxBuffer
    /\ \E k \in 0..(Views(info) * info.n_planes) :
         LET failed == IF k = 0 THEN {} ELSE {k}
         IN \E r \in {gst_gl_memory_pbo_setup_buffer(setup, ctx, info,
                                                      valign, failed)} :
              setup' = [r EXCEPT !.op = "buffer",
                                 !.views = Views(info),
                                 !.planes = info.n_planes,
                                 !.valign = valign,
                                 !.before = Len(setup.buffer),
                                 !.metas_before = setup.metas,
                                 !.failed = failed]

\* gst_gl_memory_pbo_setup_wrapped into the caller's array; any of the
\* planes may fail to be wrapped
SetupWrappedOp ==
  \E info \in Infos, valign \in Valigns :
    \E failed \in SUBSET (1..info.n_planes) :
      \E r \in {gst_gl_memory_pbo_setup_wrapped(setup, ctx, info, valign,
                                                failed)} :
        /\ r.ret = "crashed" => failed = {}
        /\ setup' = [r EXCEPT !.op = "wrapped",
                              !.views = 1,
                              !.planes = info.n_planes,
                              !.valign = valign,
                              !.before = Len(setup.buffer),
                              !.metas_before = setup.metas,
                              !.failed = failed]

\* a new buffer replaces the full one
NewBufferOp ==
  /\ setup.buffer # <<>>
  /\ setup' = NoSetup

SetupBuffer ==
  SetupBufferOp /\ UNCHANGED <<ctx, mem, pbo, tex, data, gl, maps, dst, last, rt, once, filter>>

SetupWrapped ==
  SetupWrappedOp /\ UNCHANGED <<ctx, mem, pbo, tex, data, gl, maps, dst, last, rt, once, filter>>

NewBuffer ==
  NewBufferOp /\ UNCHANGED <<ctx, mem, pbo, tex, data, gl, maps, dst, last, rt, once, filter>>

NextSetup ==
  \/ SetupBuffer
  \/ SetupWrapped
  \/ NewBuffer

SpecSetup == Init /\ [][NextSetup]_vars

(* ----------------------------------------------------- one-time set-up *)
\* gst_gl_memory_pbo_init_once, one step per line of effect.  A thread calls:
InitOnceCall(t) ==
  /\ once.pc[t] = "idle"
  /\ once.calls[t] < MaxCalls
  /\ once' = [once EXCEPT !.pc[t] = "enter"]

\* variant of the guard that tests _init alone, as a plain flag
InitOnceEnter_plain(t) ==
  /\ once.pc[t] = "enter"
  /\ once' = IF once.init # 0
             THEN [once EXCEPT !.pc[t] = "return"]
             ELSE [once EXCEPT !.pc[t] = "create"]

\* if (g_once_init_enter (&_init)): FALSE once _init is set; TRUE for the
\* one thread that finds it unset and nobody inside; any other thread blocks
\* until g_once_init_leave and then gets FALSE
InitOnceEnter(t) ==
  /\ once.pc[t] = "enter"
  /\ once.init # 0 \/ ~once.busy
  /\ once' = IF once.init # 0
             THEN [once EXCEPT !.pc[t] = "return"]
             ELSE [once EXCEPT !.busy = TRUE, !.pc[t] = "create"]

\* _gl_allocator = g_object_new (GST_TYPE_GL_MEMORY_PBO_ALLOCATOR, NULL)
InitOnceCreate(t) ==
  /\ once.pc[t] = "create"
  /\ once' = [once EXCEPT !.allocators = @ + 1, !.pc[t] = "register"]

\* gst_allocator_register (GST_GL_MEMORY_PBO_ALLOCATOR_NAME, ...)
InitOnceRegister(t) ==
  /\ once.pc[t] = "register"
  /\ once' = [once EXCEPT !.registered = @ + 1, !.pc[t] = "leave"]

\* g_once_init_leave (&_init, 1)
InitOnceLeave(t) ==
  /\ once.pc[t] = "leave"
  /\ once' = [once EXCEPT !.init = 1, !.busy = FALSE, !.pc[t] = "return"]

\* the call returns
InitOnceReturn(t) ==
  /\ once.pc[t] = "return"
  /\ once' = [once EXCEPT !.pc[t] = "idle", !.calls[t] = @ + 1]

OnceCall ==
  (\E t \in Threads : InitOnceCall(t)) /\ UNCHANGED <<ctx, mem, pbo, tex, data, gl, maps, dst, last, rt, setup, filter>>

OnceEnter ==
  (\E t \in Threads : InitOnceEnter(t)) /\ UNCHANGED <<ctx, mem, pbo, tex, data, gl, maps, dst, last, rt, setup, filter>>

OnceCreate ==
  (\E t \in Threads : InitOnceCreate(t)) /\ UNCHANGED <<ctx, mem, pbo, tex, data, gl, maps, dst, last, rt, setup, filter>>

OnceRegister ==
  (\E t \in Threads : InitOnceRegister(t)) /\ UNCHANGED <<ctx, mem, pbo, tex, data, gl, maps, dst, last, rt, setup, filter>>

OnceLeave ==
  (\E t \in Threads : InitOnceLeave(t)) /\ UNCHANGED <<ctx, mem, pbo, tex, data, gl, maps, dst, last, rt, setup, filter>>

OnceReturn ==
  (\E t \in Threads : InitOnceReturn(t)) /\ UNCHANGED <<ctx, mem, pbo, tex, data, gl, maps, dst, last, rt, setup, filter>>

NextInitOnce ==
  \/ OnceCall
  \/ OnceEnter
  \/ OnceCreate
  \/ OnceRegister
  \/ OnceLeave
  \/ OnceReturn

\* the set-up precedes every object and does not depend on the context
InitInitOnce == Init /\ ctx.api = {"GLES2"} /\ ctx.major = 2

SpecInitOnce == InitInitOnce /\ [][NextInitOnce]_vars

(* ------------------------------------------------- base filter actions *)
\* the state a filter handler starts in
FilterCall(op) ==
  [filter EXCEPT !.op = op, !.before = filter.context, !.obs = NoFilterObs]

\* the class_init of the subclass, which sets the callbacks it implements
ClassInit ==
  /\ ~filter.ready
  /\ \E s \in BOOLEAN, t \in BOOLEAN :
       filter' = [FilterCall("class_init") EXCEPT
                    !.ready = TRUE,
                    !.klass = [gl_start |-> s, gl_stop |-> t],
                    !.ret = "void"]
  /\ UNCHANGED <<ctx, mem, pbo, tex, data, gl, maps, dst, last, rt, once, setup>>

SetContext ==
  /\ filter.ready
  /\ \E what \in {"display", "other", "none"} :
       filter' = gst_gl_base_filter_set_context(FilterCall("set_context"), what)
  /\ UNCHANGED <<ctx, mem, pbo, tex, data, gl, maps, dst, last, rt, once, setup>>

Query ==
  /\ filter.ready
  /\ \E type \in QueryTypes, direction \in {"SRC", "SINK"},
        passthrough \in BOOLEAN,
        e \in FilterEnvs({"display", "other", "src", "sink", "peer", "parent"}) :
       filter' = gst_gl_base_filter_query(FilterCall("query"), type,
                                          direction, passthrough, e)
  /\ UNCHANGED <<ctx, mem, pbo, tex, data, gl, maps, dst, last, rt, once, setup>>

Start ==
  /\ filter.ready
  /\ \E e \in FilterEnvs({"display", "other"}) :
       filter' = gst_gl_base_filter_start(FilterCall("start"), e)
  /\ UNCHANGED <<ctx, mem, pbo, tex, data, gl, maps, dst, last, rt, once, setup>>

Stop ==
  /\ filter.ready
  /\ filter' = gst_gl_base_filter_stop(FilterCall("stop"))
  /\ UNCHANGED <<ctx, mem, pbo, tex, data, gl, maps, dst, last, rt, once, setup>>

DecideAllocation ==
  /\ filter.ready
  /\ \E meta \in Metas,
        e \in FilterEnvs({"display", "other", "src", "sink", "create", "start"}) :
       filter' = gst_gl_base_filter_decide_allocation(
                   FilterCall("decide_allocation"), meta, e)
  /\ UNCHANGED <<ctx, mem, pbo, tex, data, gl, maps, dst, last, rt, once, setup>>

NextFilter ==
  \/ ClassInit
  \/ SetContext
  \/ Query
  \/ Start
  \/ Stop
  \/ DecideAllocation

\* the filter does not depend on the context the memory objects live in
InitFilter == Init /\ ctx.api = {"GLES2"} /\ ctx.major = 2

SpecFilter == InitFilter /\ [][NextFilter]_vars

(* -------------------------------------------------------------- claims *)
TypeOK ==
  /\ ctx \in Contexts
  /\ mem.state \in {"none", "live", "crashed", "dead"}
  /\ mem.tex_target \in Targets
  /\ mem.tex_type \in TexTypes
  /\ pbo.target \in {"PACK", "UNPACK"}
  /\ pbo.map_count \in 0..(MaxPboMaps + 2)
  /\ pbo.content \in Contents
  /\ tex \in Contents
  /\ data \in Contents
  /\ gl.fbos \in 0..1
  /\ Len(maps) <= MaxMaps

External == mem.tex_target = "EXTERNAL_OES"

ReadMap == last.op = "map" /\ "READ" \in last.flags

RespecifyCopy == last.op = "copy" /\ last.respecify

Downloads == last.obs.staged_dl + last.obs.direct_dl

\* C1: on a non-external object a CPU read mapping that starts with
\* NEED_DOWNLOAD set returns data only after a texture-to-CPU transfer,
\* staged or direct, completed inside the call, and the bytes it returns are
\* the texture's; a GPU read mapping that starts with NEED_UPLOAD set returns
\* the handle only after an upload into the texture completed inside the call.
C1_NoStaleRead ==
  (ReadMap /\ last.ok /\ ~External) =>
    /\ (~last.gl /\ last.start_down) => (Downloads >= 1 /\ last.shown = tex)
    /\ (last.gl /\ last.start_up) => last.obs.uploads >= 1

C1_Witness ==
  /\ ReadMap /\ last.ok /\ ~External
  /\ ~last.gl /\ last.start_down
  /\ last.obs.staged_dl = 1
  /\ last.ret = "pbo"

C3_RoundTrip == rt.phase = "check" => last.shown = rt.d

\* C4: a CPU mapping of an object with the external target fails, performs no
\* transfer and no PBO map, and leaves the flags, the handle, the PBO and the
\* outstanding mappings as they were.
C4_ExternalCpuMapStep ==
  (last'.op = "map" /\ ~last'.gl /\ External) =>
    /\ ~last'.ok
    /\ last'.ret = "NULL"
    /\ last'.obs.uploads = 0
    /\ last'.obs.staged_dl = 0
    /\ last'.obs.direct_dl = 0
    /\ last'.obs.pbo_maps = 0
    /\ <<mem, pbo, tex, data, gl, maps>>' = <<mem, pbo, tex, data, gl, maps>>

C4_ExternalCpuMapFails == [][C4_ExternalCpuMapStep]_vars

C4_Witness ==
  /\ last.op = "map" /\ ~last.gl /\ External
  /\ ~last.ok
  /\ mem.NEED_DOWNLOAD

\* C5: a GPU mapping of an object with the external target returns the raw
\* texture handle and performs no upload, no download and no PBO map,
\* whatever the flags were.
C5_ExternalGpuMapRaw ==
  (last.op = "map" /\ last.gl /\ External) =>
    /\ last.ok
    /\ last.ret = "tex"
    /\ last.obs.uploads = 0
    /\ Downloads = 0
    /\ last.obs.pbo_maps = 0

C5_Witness ==
  /\ last.op = "map" /\ last.gl /\ External
  /\ last.start_up
  /\ "READ" \in last.flags
  /\ last.ret = "tex"

\* C6: a copy with respecify fails whenever the output plane size differs
\* from the source plane size, and then no texture is created, the
\* destination is neither bound nor written, and no framebuffer is created.
C6_RespecifySizeMismatch ==
  (RespecifyCopy /\ last.differ) =>
    /\ ~last.ok
    /\ last.obs.tex_made = 0
    /\ last.obs.dst_binds = 0
    /\ last.obs.dst_writes = 0
    /\ last.obs.fbo_made = 0
    /\ gl.fbos = 0

C6_Witness ==
  /\ RespecifyCopy /\ last.differ
  /\ ~last.ok
  /\ ctx.GenFramebuffers
  /\ mem.pbo

\* C7: a copy with respecify that succeeds has read the source texture back
\* into the PBO inside the call, whatever NEED_DOWNLOAD was, and the bytes it
\* uploaded into the destination are the source texture's content.
C7_RespecifyReadsBack ==
  (RespecifyCopy /\ last.ok) =>
    /\ last.obs.staged_dl >= 1
    /\ dst.content = tex

\* C8: a copy with respecify fails, with no upload into the destination,
\* whenever the source has no PBO or buffer objects are unavailable, and on a
\* GLES2-family context whenever the source is not RGBA/unsigned-byte.
C8_RespecifyPreconditions ==
  (/\ RespecifyCopy
   /\ \/ ~mem.pbo
      \/ ~ctx.GenBuffers
      \/ "GLES2" \in ctx.api /\ mem.tex_type # "RGBA") =>
    /\ ~last.ok
    /\ last.obs.dst_writes = 0
    /\ dst.content = Undef

C8_Witness ==
  /\ RespecifyCopy /\ ~last.differ
  /\ "GLES2" \in ctx.api /\ mem.tex_type # "RGBA"
  /\ mem.pbo /\ ctx.GenBuffers
  /\ ~last.ok
  /\ last.obs.fbo_made = 1

\* C9: every framebuffer object a copy creates is deleted before the copy
\* returns, on the success path and on every failure path, so no framebuffer
\* is alive while no copy is in progress.
C9_NoFramebufferLeft ==
  /\ gl.fbos = 0
  /\ last.op = "copy" => last.obs.fbo_made = last.obs.fbo_deleted

C9_Witness ==
  /\ last.op = "copy"
  /\ ~last.ok
  /\ last.obs.fbo_made = 1
  /\ last.obs.fbo_deleted = 1

\* C10: the upload from the PBO leaves the pixel-store state at its
\* defaults (row length 0, alignment 4) on every API family and version on
\* which it sets it.
C10_PixelStoreRestored ==
  /\ gl.unpack_row_length = DefaultRowLength
  /\ gl.unpack_alignment = DefaultAlignment

FromAllocate ==
  \/ last.op = "alloc"
  \/ last.op = "pbo_alloc" /\ last.flags = {"VIDEO"}

FromWrapHandle ==
  \/ last.op = "wrapped_texture"
  \/ last.op = "pbo_alloc" /\ last.flags = {"VIDEO", "WRAP_GPU_HANDLE"}

FromWrapData ==
  \/ last.op = "wrapped"
  \/ last.op = "pbo_alloc" /\ last.flags = {"VIDEO", "WRAP_SYSMEM"}

\* C11: the object a constructor returns has its dirty state fixed by the
\* constructor: allocate leaves NEED_UPLOAD and NEED_DOWNLOAD clear;
\* wrapHandle sets NEED_DOWNLOAD and leaves NEED_UPLOAD clear; wrapData sets
\* NEED_UPLOAD on the object and on its PBO, leaves NEED_DOWNLOAD clear, and
\* the PBO's backing data is the caller's.
C11_ConstructorFlags ==
  Live =>
    /\ FromAllocate => (~mem.NEED_UPLOAD /\ ~mem.NEED_DOWNLOAD)
    /\ FromWrapHandle => (mem.NEED_DOWNLOAD /\ ~mem.NEED_UPLOAD)
    /\ FromWrapData =>
         /\ mem.NEED_UPLOAD /\ ~mem.NEED_DOWNLOAD
         /\ mem.pbo /\ pbo.NEED_UPLOAD
         /\ pbo.content = last.shown

C11_Witness ==
  /\ Live
  /\ last.op = "pbo_alloc" /\ last.flags = {"VIDEO", "WRAP_SYSMEM"}
  /\ mem.NEED_UPLOAD /\ pbo.NEED_UPLOAD
  /\ last.shown # Undef
  /\ pbo.content = last.shown

\* C12: an object without a PBO is valid for every operation: no operation on
\* it faults or touches the PBO, and its transfers use the direct path.
C12_NoPboIsValid ==
  ~mem.pbo =>
    /\ mem.state # "crashed"
    /\ pbo = NoPbo
    /\ last.obs.pbo_maps = 0
    /\ last.obs.staged_dl = 0

\* C13: an object has a PBO only if the context's capability probe reports
\* staged upload or staged download as supported.
C13_PboOnlyIfSupported ==
  mem.pbo =>
    (CONTEXT_SUPPORTS_PBO_UPLOAD(ctx) \/ CONTEXT_SUPPORTS_PBO_DOWNLOAD(ctx))

\* C14: an object whose texture target is external never owns a PBO.
C14_ExternalHasNoPbo == External => ~mem.pbo

\* C15: teardown deletes the texture once for an object that owns it and
\* never for a wrapped handle; the PBO, when there is one, is released
\* exactly once, before the texture teardown, and the object holds none
\* afterwards.
C15_Teardown ==
  last.op = "destroy" =>
    /\ last.obs.tex_deleted = (IF mem.texture_wrapped THEN 0 ELSE 1)
    /\ last.obs.pbo_freed = (IF last.had_pbo THEN 1 ELSE 0)
    /\ ~last.obs.pbo_at_teardown
    /\ ~mem.pbo
    /\ mem.state = "dead"

C15_Witness ==
  /\ last.op = "destroy"
  /\ last.had_pbo
  /\ mem.texture_wrapped
  /\ last.obs.tex_deleted = 0
  /\ last.obs.pbo_freed = 1

TransferOrCopy ==
  last.op \in {"map", "copy", "download_transfer", "upload_transfer"}

\* C16: every graphics-API call made by a map's staged upload or download,
\* by copyInto and by the explicit download and upload requests is made on
\* the thread that owns the context.
C16_OnContextThread == TransferOrCopy => last.obs.off_thread = 0

C16_Witness ==
  /\ last.op = "copy"
  /\ last.ok
  /\ last.obs.dispatched = 1
  /\ last.obs.fbo_made = 1
  /\ last.obs.off_thread = 0

\* C17: copyInto and the explicit download and upload requests return only
\* after the work they dispatched has completed, and the boolean copyInto
\* returns is the result the dispatched work wrote, on every path.
C17_SynchronousDispatch ==
  /\ last.op \in {"copy", "download_transfer", "upload_transfer"} =>
       last.obs.completed = last.obs.dispatched
  /\ last.op \in {"copy", "download_transfer"} => last.obs.dispatched = 1
  /\ last.op = "copy" =>
       /\ last.obs.result_writes = 1
       /\ last.ret \in {"TRUE", "FALSE"}
       /\ last.ok = (last.ret = "TRUE")

C17_Witness ==
  /\ last.op = "copy"
  /\ ~last.ok
  /\ last.ret = "FALSE"
  /\ last.obs.fbo_made = 0
  /\ last.obs.result_writes = 1
  /\ last.obs.completed = 1

\* C18: every step of a transfer sequence on the object (PBO map, GPU
\* transfer call, unmap) runs while the object's lock is held, in a map, in
\* the explicit requests and in the readback and upload of a respecify copy.
C18_TransfersUnderLock == last.obs.unlocked = 0

\* C20: a map request of a non-external object in which a PBO map failed
\* still succeeds through the direct path, unless the direct path itself
\* failed: a GPU read map still resolves a pending upload, a CPU map still
\* returns data.
C20_MapFailureFallsBack ==
  (/\ last.op = "map" /\ ~External
   /\ last.obs.map_fails >= 1
   /\ last.obs.direct_fails = 0) =>
    /\ last.ok
    /\ (last.gl /\ "READ" \in last.flags /\ last.start_up) =>
         last.obs.uploads >= 1

\* C19: however the calls of gst_gl_memory_pbo_init_once interleave, the
\* allocator is created and registered at most once, and a call returns only
\* when the allocator has been created and registered.
C19_InitOnce ==
  /\ once.allocators <= 1
  /\ once.registered <= 1
  /\ \A t \in Threads :
       (once.pc[t] = "return" \/ once.calls[t] > 0) =>
         (once.init = 1 /\ once.allocators = 1 /\ once.registered = 1)

C19_Witness ==
  /\ \A t \in Threads : once.calls[t] = MaxCalls
  /\ once.allocators = 1
  /\ once.registered = 1

\* a copy that was given no destination handle and whose texture creation
\* yielded handle 0 (the copy got as far as making its framebuffer)
CreationFailed ==
  /\ last.op = "copy"
  /\ last.tex_in = 0
  /\ last.obs.fbo_made >= 1
  /\ last.obs.tex_made = 0

\* C21: a copy called with no destination handle whose destination texture
\* cannot be created is reported as failed and writes nothing through
\* handle 0.
C21_CreationFailureFails ==
  CreationFailed => (~last.ok /\ last.obs.dst_writes = 0)

\* the memories the last gst_gl_memory_pbo_setup_buffer appended
Appended == SubSeq(setup.buffer, setup.before + 1, Len(setup.buffer))

C23_SetupBufferResult ==
  setup.op = "buffer" =>
    /\ setup.ret = "TRUE" =>
         /\ setup.failed = {}
         /\ Len(Appended) = setup.views * setup.planes
         /\ setup.metas = setup.metas_before + setup.views
         /\ \A v \in 0..(setup.views - 1), i \in 0..(setup.planes - 1) :
              Appended[v * setup.planes + i + 1] =
                [plane |-> i, valign |-> setup.valign, live |-> TRUE]
    /\ setup.ret = "FALSE" =>
         /\ setup.failed # {}
         /\ \A k \in setup.failed : Len(Appended) = k - 1
    /\ setup.ret \in {"TRUE", "FALSE"}

\* C24: whenever no mapping of the object is outstanding, no mapping of its
\* PBO is outstanding either, whichever way the mappings were served.
C24_PboMapsBalanced ==
  (mem.state = "live" /\ maps = <<>>) => pbo.map_count = 0

\* C25: a CPU mapping served through the PBO returns the PBO's bytes and
\* leaves the PBO mapped, and the unmap of that mapping releases one PBO
\* mapping, the one recorded at map time, once.
C25_StagedMapReleased ==
  /\ (last.op = "map" /\ ~last.gl /\ last.ret = "pbo") =>
       /\ last.shown = pbo.content
       /\ pbo.map_count >= 1
       /\ maps[Len(maps)].staged
  /\ (last.op = "unmap" /\ last.ret = "pbo") => last.obs.pbo_unmaps = 1
  /\ (last.op = "unmap" /\ last.ret # "pbo") => last.obs.pbo_unmaps = 0

C25_Witness ==
  /\ last.op = "unmap"
  /\ last.ret = "pbo"
  /\ last.obs.pbo_unmaps = 1
  /\ pbo.map_count = 0

\* C26: a CPU mapping, in any mode, that starts with NEED_DOWNLOAD set and
\* returns the PBO's pointer has read the texture into the PBO first, so the
\* bytes it returns are the texture's.
C26_CpuMapDownloadsAnyMode ==
  (last.op = "map" /\ ~last.gl /\ last.start_down /\ last.ret = "pbo") =>
    (last.obs.staged_dl >= 1 /\ last.shown = tex)

\* C27: whenever a call maps the PBO as the source of an upload its target
\* is the unpack one, and whenever it maps the PBO to receive a readback or
\* for CPU access its target is the pack one.
C27_PboTargetMatchesRole == last.obs.wrong_target = 0

\* C28: a memory copy of an external object yields nothing; a partial copy
\* goes through the system-memory fallback; a full copy of an object with
\* NEED_UPLOAD set copies the CPU bytes and a full copy of one without it
\* copies the texture, and no other copy does; when the copy fails no object
\* is returned and the one that was made is released with no mapping left.
C28_MemCopyPath ==
  last.op = "mem_copy" =>
    /\ External => (last.ret = "NULL" /\ last.obs.copy_path = "none"
                                    /\ last.obs.dest_made = 0)
    /\ (~External /\ last.partial) =>
         (last.obs.copy_path = "fallback" /\ last.obs.dest_made = 0)
    /\ (~External /\ ~last.partial /\ last.start_up) =>
         last.obs.copy_path \in {"memcpy", "none"}
    /\ last.obs.copy_path = "teximage" =>
         (~External /\ ~last.partial /\ ~last.start_up)
    /\ last.obs.copy_path = "none" => last.ret = "NULL"
    /\ last.ret = "NULL" => last.obs.dest_unref = last.obs.dest_made
    /\ last.ret = "dest" => (last.obs.dest_made = 1 /\ last.obs.dest_unref = 0)
    /\ last.obs.dest_maps = 0

C28_Witness ==
  /\ last.op = "mem_copy"
  /\ ~External
  /\ last.partial
  /\ last.start_up
  /\ last.obs.copy_path = "fallback"

\* C29: NEED_UPLOAD and NEED_DOWNLOAD are never both set on the object.
C29_FlagsExclusive ==
  mem.state = "live" => ~(mem.NEED_UPLOAD /\ mem.NEED_DOWNLOAD)

\* C30: a failed copy that was given no destination handle has deleted the
\* texture it made and reports handle 0, and after every copy, failed or
\* not, no texture and no framebuffer is left bound.
C30_FailedCopyLeaksNoTexture ==
  last.op = "copy" =>
    /\ (~last.ok /\ last.tex_in = 0) =>
         (last.obs.tex_deleted = last.obs.tex_made /\ dst.tex_id = 0)
    /\ last.obs.bound_tex = 0
    /\ last.obs.bound_fbo = 0

FilterEvents == filter.obs.events

StopRan == filter.ready /\ filter.op = "stop"

\* C31: when the filter holds a context and the subclass defines gl_stop,
\* stop dispatches gl_stop, which runs on the context thread while the filter
\* still holds the context, before the filter drops its reference; after
\* stop the context, the display and the application's context are unset;
\* stop of a filter without a context dispatches nothing.
C31_StopOrder ==
  StopRan =>
    /\ filter.context = "NULL" /\ ~filter.display /\ ~filter.other_context
    /\ (filter.before # "NULL" /\ filter.klass.gl_stop) =>
         /\ filter.obs.dispatched = 1 /\ filter.obs.completed = 1
         /\ \E i, j \in DOMAIN FilterEvents :
              /\ i < j
              /\ FilterEvents[i].what = "gl_stop"
              /\ FilterEvents[i].thread = "gl"
              /\ FilterEvents[i].on = filter.before
              /\ FilterEvents[j].what = "unref_context"
    /\ (filter.before = "NULL" \/ ~filter.klass.gl_stop) =>
         /\ filter.obs.dispatched = 0
         /\ \A i \in DOMAIN FilterEvents : FilterEvents[i].what # "gl_stop"

C31_Witness ==
  /\ StopRan
  /\ filter.before = "created"
  /\ filter.klass.gl_stop
  /\ filter.obs.dispatched = 1
  /\ Len(FilterEvents) = 2

\* C32: the subclass callbacks alternate: gl_start is invoked only when the
\* subclass is not running, gl_stop only when it is.
C32_CallbacksAlternate ==
  \A i \in DOMAIN FilterEvents :
    /\ FilterEvents[i].what = "gl_start" => ~FilterEvents[i].running
    /\ FilterEvents[i].what = "gl_stop" => FilterEvents[i].running

\* C33: decide_allocation returns TRUE only with a usable context and a
\* successful gl_start; when creating the context fails it returns FALSE and
\* the filter holds no context, and no work is ever dispatched while the
\* filter holds a context that was not created.
C33_DecideAllocationResult ==
  (filter.ready /\ filter.op = "decide_allocation") =>
    /\ filter.ret = "TRUE" =>
         (filter.context \in {"created", "peer"} /\ filter.gl_result)
    /\ (filter.obs.creates = 1 /\ filter.context # "created") =>
         (filter.ret = "FALSE" /\ filter.context = "NULL")
    /\ filter.before = "new" => filter.obs.dispatched = 0

====
